---- MODULE Spec2Model ----
(***************************************************************************)
(* Model of the Dungeon Guardian agent (src/dungeon_guardian.py,           *)
(* src/interactive_runner.py): WorldState, the GOAP action catalog, the    *)
(* A* planner built on heapq, the simulation engine and the step loop of   *)
(* DungeonGuardian.run_simulation.                                         *)
(*                                                                         *)
(* Identifiers are read as the rest of the file uses them: the field       *)
(* declared trease_threat_level is treasure_threat_level, the member       *)
(* ATTACK_ENEMEY is ATTACK_ENEMY, false/true are False/True, and           *)
(* Action.action_type is a dataclass field.                                *)
(***************************************************************************)
EXTENDS Integers, Sequences, FiniteSets, TLC

VARIABLES
    pc,             \* position of the driver: which call is in progress
    start_state,    \* argument start_state of the current plan() call
    goal,           \* goal whose conditions are the argument goal_conditions
    open_list,      \* plan(): the heapq frontier, a list of (f, g, state, actions)
    closed_set,     \* plan(): keys of the states already expanded
    plan_status,    \* plan(): "idle", "running", "returned" or "raised"
    plan_result,    \* plan(): the returned list of actions
    pops,           \* plan(): number of loop iterations so far
    pop_trace,      \* plan(): keys of the popped nodes, in pop order
    draws,          \* plan(): the random.randint results, in draw order
    invocation,     \* planner harness: 1 for the first call, 2 for the repeated call
    first_call,     \* planner harness: outcome of the first call
    replay_state,   \* planner harness: state while re-applying a returned plan
    replay_idx,     \* planner harness: number of plan actions re-applied
    initial_state,  \* argument initial_state of run_simulation
    current_state,  \* DungeonGuardian.current_state
    step_count,     \* DungeonGuardian.step_count
    max_steps,      \* argument max_steps of run_simulation
    memory,         \* CognitiveEngine.memory, the reflection log
    step_start,     \* run_simulation: current_state at the start of the step
    exec_result,    \* run_simulation: outcome of execute_action in this step
    executed,       \* run_simulation: the execute_action calls made so far
    drifts,         \* run_simulation: number of introduce_world_changes calls so far
    pure_in,        \* pure-function harness: the input state
    pure_out        \* pure-function harness: the last result

vars == <<pc, start_state, goal, open_list, closed_set, plan_status, plan_result,
          pops, pop_trace, draws, invocation, first_call, replay_state, replay_idx,
          initial_state, current_state, step_count, max_steps, memory, step_start,
          exec_result, executed, drifts, pure_in, pure_out>>

plannerVars == <<open_list, closed_set, plan_status, plan_result, pops, pop_trace, draws>>
harnessVars == <<invocation, first_call, replay_state, replay_idx>>
runVars == <<initial_state, current_state, step_count, max_steps, memory, step_start,
             exec_result, executed, drifts>>
pureVars == <<pure_in, pure_out>>

----------------------------------------------------------------------------
(* Bounds of the model *)

\* plan() has no expansion cap; the model follows a search for this many pops
MaxExpansions == 6
\* largest max_steps the model passes to run_simulation
MaxStepsBound == 3

----------------------------------------------------------------------------
(* WorldState and enums *)

ThreatLevels == <<"low", "medium", "high">>

ActionType == {"HealSelf", "AttackEnemy", "Retreat", "DefendTreasure",
               "CallBackup", "SearchForPotion"}

GoalType == {"Survive", "EliminateThreat", "ProtectTreasure", "PrepareForBattle"}

WorldState(h, s, p, t, e, z, hp, b) ==
    [health |-> h, stamina |-> s, potion_count |-> p, treasure_threat_level |-> t,
     enemy_nearby |-> e, is_in_safe_zone |-> z, has_potion |-> hp,
     backup_available |-> b]

Fields == {"health", "stamina", "potion_count", "treasure_threat_level",
           "enemy_nearby", "is_in_safe_zone", "has_potion", "backup_available"}

Min(a, b) == IF a < b THEN a ELSE b
\* variant: the lower bound is dropped
Max_of_nothing(a, b) == b

Max(a, b) == IF a > b THEN a ELSE b

\* random.randint(0, 15)
MaxDamage == 15
Damage == 0..MaxDamage
\* the draws the model explores: both ends and two values in between
DamageDraws == {0, 6, 10, MaxDamage}

----------------------------------------------------------------------------
(* The action catalog of GOAPPlanner._define_actions, in list order *)

Catalog == <<"HealSelf", "AttackEnemy", "Retreat", "DefendTreasure",
             "CallBackup", "SearchForPotion">>

\* keys of the preconditions dict, in insertion order
PreconditionKeys(a) ==
    CASE a = "HealSelf"        -> <<"has_potion">>
      [] a = "AttackEnemy"     -> <<"enemy_nearby", "stamina">>
      [] a = "Retreat"         -> <<"is_in_safe_zone">>
      [] a = "DefendTreasure"  -> <<"treasure_threat_level">>
      [] a = "CallBackup"      -> <<"backup_available">>
      [] a = "SearchForPotion" -> <<"potion_count">>

\* one precondition (literal equality or lambda) on the value v of field key
PreconditionHolds(a, key, v) ==
    CASE a = "HealSelf"        /\ key = "has_potion"            -> v = TRUE
      [] a = "AttackEnemy"     /\ key = "enemy_nearby"          -> v = TRUE
      [] a = "AttackEnemy"     /\ key = "stamina"               -> v >= 5
      [] a = "Retreat"         /\ key = "is_in_safe_zone"       -> v = FALSE
      [] a = "DefendTreasure"  /\ key = "treasure_threat_level" -> v \in {"medium", "high"}
      [] a = "CallBackup"      /\ key = "backup_available"      -> v = TRUE
      [] a = "SearchForPotion" /\ key = "potion_count"          -> v < 3

\* keys of the effects dict, in insertion order
EffectKeys(a) ==
    CASE a = "HealSelf"        -> <<"health", "has_potion", "potion_count">>
      [] a = "AttackEnemy"     -> <<"enemy_nearby", "stamina", "health">>
      [] a = "Retreat"         -> <<"is_in_safe_zone", "enemy_nearby", "stamina">>
      [] a = "DefendTreasure"  -> <<"treasure_threat_level", "stamina">>
      [] a = "CallBackup"      -> <<"enemy_nearby", "backup_available", "treasure_threat_level">>
      [] a = "SearchForPotion" -> <<"has_potion", "potion_count", "stamina">>

\* variant: HealSelf leaves the potion flag set
EffectValue_flag_kept(a, key, v, d) ==
    CASE a = "HealSelf"        /\ key = "health"                -> Min(100, v + 40)
      [] a = "HealSelf"        /\ key = "has_potion"            -> TRUE
      [] a = "HealSelf"        /\ key = "potion_count"          -> Max(0, v - 1)
      [] a = "AttackEnemy"     /\ key = "enemy_nearby"          -> FALSE
      [] a = "AttackEnemy"     /\ key = "stamina"               -> v - 5
      [] a = "AttackEnemy"     /\ key = "health"                -> v - d
      [] a = "Retreat"         /\ key = "is_in_safe_zone"       -> TRUE
      [] a = "Retreat"         /\ key = "enemy_nearby"          -> FALSE
      [] a = "Retreat"         /\ key = "stamina"               -> v - 2
      [] a = "DefendTreasure"  /\ key = "treasure_threat_level" -> "low"
      [] a = "DefendTreasure"  /\ key = "stamina"               -> v - 3
      [] a = "CallBackup"      /\ key = "enemy_nearby"          -> FALSE
      [] a = "CallBackup"      /\ key = "backup_available"      -> FALSE
      [] a = "CallBackup"      /\ key = "treasure_threat_level" -> "low"
      [] a = "SearchForPotion" /\ key = "has_potion"            -> TRUE
      [] a = "SearchForPotion" /\ key = "potion_count"          -> v + 1
      [] a = "SearchForPotion" /\ key = "stamina"               -> v - 1

\* one effect (literal or lambda) on the value v of field key; d is the
\* result of random.randint(0, 15) inside AttackEnemy's health lambda
EffectValue(a, key, v, d) ==
    CASE a = "HealSelf"        /\ key = "health"                -> Min(100, v + 40)
      [] a = "HealSelf"        /\ key = "has_potion"            -> FALSE
      [] a = "HealSelf"        /\ key = "potion_count"          -> Max(0, v - 1)
      [] a = "AttackEnemy"     /\ key = "enemy_nearby"          -> FALSE
      [] a = "AttackEnemy"     /\ key = "stamina"               -> v - 5
      [] a = "AttackEnemy"     /\ key = "health"                -> v - d
      [] a = "Retreat"         /\ key = "is_in_safe_zone"       -> TRUE
      [] a = "Retreat"         /\ key = "enemy_nearby"          -> FALSE
      [] a = "Retreat"         /\ key = "stamina"               -> v - 2
      [] a = "DefendTreasure"  /\ key = "treasure_threat_level" -> "low"
      [] a = "DefendTreasure"  /\ key = "stamina"               -> v - 3
      [] a = "CallBackup"      /\ key = "enemy_nearby"          -> FALSE
      [] a = "CallBackup"      /\ key = "backup_available"      -> FALSE
      [] a = "CallBackup"      /\ key = "treasure_threat_level" -> "low"
      [] a = "SearchForPotion" /\ key = "has_potion"            -> TRUE
      [] a = "SearchForPotion" /\ key = "potion_count"          -> v + 1
      [] a = "SearchForPotion" /\ key = "stamina"               -> v - 1

Cost(a) ==
    CASE a = "HealSelf"        -> 1
      [] a = "AttackEnemy"     -> 2
      [] a = "Retreat"         -> 1
      [] a = "DefendTreasure"  -> 2
      [] a = "CallBackup"      -> 3
      [] a = "SearchForPotion" -> 1

----------------------------------------------------------------------------
(* Goals: CognitiveEngine.generate_goal and DungeonGuardian._goal_to_conditions *)

\* variant: the medium/high branch is tested before the high-and-enemy branch
generate_goal_protect_first(s) ==
    IF s.health <= 30 THEN "Survive"
    ELSE IF s.treasure_threat_level \in {"medium", "high"} THEN "ProtectTreasure"
    ELSE IF s.treasure_threat_level = "high" /\ s.enemy_nearby THEN "EliminateThreat"
    ELSE "PrepareForBattle"

generate_goal(s) ==
    IF s.health <= 30 THEN "Survive"
    ELSE IF s.treasure_threat_level = "high" /\ s.enemy_nearby THEN "EliminateThreat"
    ELSE IF s.treasure_threat_level \in {"medium", "high"} THEN "ProtectTreasure"
    ELSE "PrepareForBattle"

\* goal_conditions dicts handed to plan() by callers other than run_simulation:
\* the backup_available = true example of the no-plan property, a goal on
\* two fields AttackEnemy writes, and a goal on three fields that different
\* action sequences reach in the same state
CallerGoals == {"NeedBackup", "HealthyAndClear", "RecoveredInSafety"}

\* keys of the goal_conditions dict, in insertion order
GoalKeys(gl) ==
    CASE gl = "Survive"          -> <<"health", "is_in_safe_zone">>
      [] gl = "EliminateThreat"  -> <<"enemy_nearby", "treasure_threat_level">>
      [] gl = "ProtectTreasure"  -> <<"treasure_threat_level">>
      [] gl = "PrepareForBattle" -> <<"stamina", "has_potion">>
      [] gl = "NeedBackup"       -> <<"backup_available">>
      [] gl = "HealthyAndClear"  -> <<"health", "enemy_nearby">>
      [] gl = "RecoveredInSafety" -> <<"health", "enemy_nearby", "is_in_safe_zone">>

\* one goal condition (literal equality or lambda) on the value v of field key
GoalHolds(gl, key, v) ==
    CASE gl = "Survive"          /\ key = "health"                -> v >= 50
      [] gl = "Survive"          /\ key = "is_in_safe_zone"       -> v = TRUE
      [] gl = "EliminateThreat"  /\ key = "enemy_nearby"          -> v = FALSE
      [] gl = "EliminateThreat"  /\ key = "treasure_threat_level" -> v = "low"
      [] gl = "ProtectTreasure"  /\ key = "treasure_threat_level" -> v = "low"
      [] gl = "PrepareForBattle" /\ key = "stamina"               -> v >= 15
      [] gl = "PrepareForBattle" /\ key = "has_potion"            -> v = TRUE
      [] gl = "NeedBackup"       /\ key = "backup_available"      -> v = TRUE
      [] gl = "HealthyAndClear"  /\ key = "health"                -> v >= 50
      [] gl = "HealthyAndClear"  /\ key = "enemy_nearby"          -> v = FALSE
      [] gl = "RecoveredInSafety" /\ key = "health"              -> v >= 90
      [] gl = "RecoveredInSafety" /\ key = "enemy_nearby"        -> v = FALSE
      [] gl = "RecoveredInSafety" /\ key = "is_in_safe_zone"     -> v = TRUE

----------------------------------------------------------------------------
(* GOAPPlanner helpers *)

Range(seq) == {seq[i] : i \in 1..Len(seq)}

\* variant: the loop returns after testing the first precondition
can_execute_action_first_only(s, a) ==
    \A i \in 1..Min(1, Len(PreconditionKeys(a))) :
        LET key == PreconditionKeys(a)[i]
        IN  key \in DOMAIN s /\ PreconditionHolds(a, key, s[key])

can_execute_action(s, a) ==
    \A i \in 1..Len(PreconditionKeys(a)) :
        LET key == PreconditionKeys(a)[i]
        IN  key \in DOMAIN s /\ PreconditionHolds(a, key, s[key])

\* the loop of _apply_action from effect i on: new_state is the copy being
\* written with setattr, new_state_dict the asdict snapshot taken before the loop
RECURSIVE ApplyEffects(_, _, _, _, _)
ApplyEffects(new_state, new_state_dict, a, d, i) ==
    IF i > Len(EffectKeys(a)) THEN new_state
    ELSE LET key == EffectKeys(a)[i]
         IN  IF key \in DOMAIN new_state_dict
             THEN ApplyEffects([new_state EXCEPT ![key] =
                                   EffectValue(a, key, new_state_dict[key], d)],
                               new_state_dict, a, d, i + 1)
             ELSE ApplyEffects(new_state, new_state_dict, a, d, i + 1)

\* variant: the first entry of the effects dict is skipped
apply_action_skips_first(s, a, d) == ApplyEffects(s, s, a, d, 2)

apply_action(s, a, d) == ApplyEffects(s, s, a, d, 1)

goal_satisfied(s, gl) ==
    \A i \in 1..Len(GoalKeys(gl)) :
        LET key == GoalKeys(gl)[i]
        IN  key \in DOMAIN s /\ GoalHolds(gl, key, s[key])

heuristic(s, gl) ==
    Cardinality({i \in 1..Len(GoalKeys(gl)) :
                    GoalKeys(gl)[i] \in DOMAIN s
                    /\ ~GoalHolds(gl, GoalKeys(gl)[i], s[GoalKeys(gl)[i]])})

\* json.dumps(asdict(state), sort_keys=True): the values in key order
state_to_key(s) ==
    <<s.backup_available, s.enemy_nearby, s.has_potion, s.health,
      s.is_in_safe_zone, s.potion_count, s.stamina, s.treasure_threat_level>>

----------------------------------------------------------------------------
(* heapq on tuples (f_score, g_score, state, actions) *)

Entry(f, g, s, acts) == [f |-> f, g |-> g, state |-> s, actions |-> acts]

\* list < list on lists of ActionType: the first differing pair is compared
\* with <, which Enum members do not support; a proper prefix is smaller
ListLess(x, y) ==
    LET n == Min(Len(x), Len(y))
    IN  IF \E i \in 1..n : x[i] # y[i] THEN "err"
        ELSE IF Len(x) < Len(y) THEN "lt" ELSE "ge"

\* variant: the larger f, then the larger g, counts as smaller
EntryLess_reversed(a, b) ==
    IF a.f # b.f THEN (IF a.f > b.f THEN "lt" ELSE "ge")
    ELSE IF a.g # b.g THEN (IF a.g > b.g THEN "lt" ELSE "ge")
    ELSE IF a.state # b.state THEN "err"
    ELSE ListLess(a.actions, b.actions)

\* tuple < tuple: the first position whose elements are not == decides;
\* WorldState (dataclass, eq only) does not support <
EntryLess(a, b) ==
    IF a.f # b.f THEN (IF a.f < b.f THEN "lt" ELSE "ge")
    ELSE IF a.g # b.g THEN (IF a.g < b.g THEN "lt" ELSE "ge")
    ELSE IF a.state # b.state THEN "err"
    ELSE ListLess(a.actions, b.actions)

\* heapq._siftdown; positions are 0-based as in heapq, err is a raised TypeError
RECURSIVE siftdown(_, _, _, _)
siftdown(heap, newitem, startpos, pos) ==
    IF pos > startpos
    THEN LET parentpos == (pos - 1) \div 2
             parent == heap[parentpos + 1]
             c == EntryLess(newitem, parent)
         IN  IF c = "err" THEN [heap |-> heap, err |-> TRUE]
             ELSE IF c = "lt"
                  THEN siftdown([heap EXCEPT ![pos + 1] = parent], newitem,
                                startpos, parentpos)
                  ELSE [heap |-> [heap EXCEPT ![pos + 1] = newitem], err |-> FALSE]
    ELSE [heap |-> [heap EXCEPT ![pos + 1] = newitem], err |-> FALSE]

\* heapq._siftup: bubble the smaller child up to a leaf, then sift newitem down
RECURSIVE siftup(_, _, _, _)
siftup(heap, newitem, startpos, pos) ==
    LET endpos == Len(heap)
        childpos == 2 * pos + 1
        rightpos == childpos + 1
    IN  IF childpos < endpos
        THEN LET c == IF rightpos < endpos
                      THEN EntryLess(heap[childpos + 1], heap[rightpos + 1])
                      ELSE "lt"
                 chosen == IF c = "lt" THEN childpos ELSE rightpos
             IN  IF c = "err" THEN [heap |-> heap, err |-> TRUE]
                 ELSE siftup([heap EXCEPT ![pos + 1] = heap[chosen + 1]], newitem,
                             startpos, chosen)
        ELSE siftdown(heap, newitem, startpos, pos)

heappush(heap, item) == siftdown(Append(heap, item), item, 0, Len(heap))

\* heapq.heappop of a non-empty heap: the item returned and the heap left
heappop(heap) ==
    LET lastelt == heap[Len(heap)]
        rest == SubSeq(heap, 1, Len(heap) - 1)
    IN  IF rest # <<>>
        THEN LET r == siftup([rest EXCEPT ![1] = lastelt], lastelt, 0, 0)
             IN  [item |-> heap[1], heap |-> r.heap, err |-> r.err]
        ELSE [item |-> lastelt, heap |-> rest, err |-> FALSE]

----------------------------------------------------------------------------
(* GOAPPlanner.plan *)

\* open_list = [(0, 0, start_state, [])]
fresh_open_list(start) == <<Entry(0, 0, start, <<>>)>>

\* variant: the closed set is kept from the previous call
fresh_closed_set_kept == closed_set

\* closed_set = set()
fresh_closed_set == {}

\* the for loop over self.actions from catalog position i on, for the popped
\* node; acc carries the heap, whether a heappush raised, and whether
\* AttackEnemy's lambda drew its damage d
RECURSIVE expand(_, _, _, _, _)
expand(acc, node, gl, d, i) ==
    IF i > Len(Catalog) \/ acc.err THEN acc
    ELSE LET a == Catalog[i]
         IN  IF can_execute_action(node.state, a)
             THEN LET new_state == apply_action(node.state, a, d)
                      new_actions == Append(node.actions, a)
                      new_g_score == node.g + Cost(a)
                      new_f_score == new_g_score + heuristic(new_state, gl)
                      r == heappush(acc.heap,
                                    Entry(new_f_score, new_g_score, new_state, new_actions))
                  IN  expand([heap |-> r.heap, err |-> r.err,
                              drew |-> acc.drew \/ a = "AttackEnemy"],
                             node, gl, d, i + 1)
             ELSE expand(acc, node, gl, d, i + 1)

\* the call of plan(): the two locals are created
PlanCall(start) ==
    /\ open_list' = fresh_open_list(start)
    /\ closed_set' = fresh_closed_set
    /\ plan_status' = "running"
    /\ plan_result' = <<>>
    /\ pops' = 0
    /\ pop_trace' = <<>>
    /\ draws' = <<>>

\* variant: a popped node is never taken for visited
PlanIteration_revisits(d) ==
    /\ plan_status = "running"
    /\ pops < MaxExpansions \/ open_list = <<>>
    /\ IF open_list = <<>>
       THEN /\ plan_status' = "returned"
            /\ plan_result' = <<>>
            /\ UNCHANGED <<open_list, closed_set, pops, pop_trace, draws>>
       ELSE LET p == heappop(open_list)
                node == p.item
                state_key == state_to_key(node.state)
            IN  /\ pops' = pops + 1
                /\ IF p.err
                   THEN /\ plan_status' = "raised"
                        /\ UNCHANGED <<open_list, closed_set, plan_result, pop_trace, draws>>
                   ELSE /\ pop_trace' = Append(pop_trace, state_key)
                        /\ IF FALSE
                           THEN /\ open_list' = p.heap
                                /\ UNCHANGED <<closed_set, plan_status, plan_result, draws>>
                           ELSE /\ closed_set' = closed_set \cup {state_key}
                                /\ IF goal_satisfied(node.state, goal)
                                   THEN /\ plan_status' = "returned"
                                        /\ plan_result' = node.actions
                                        /\ open_list' = p.heap
                                        /\ UNCHANGED draws
                                   ELSE LET x == expand([heap |-> p.heap, err |-> FALSE,
                                                         drew |-> FALSE], node, goal, d, 1)
                                        IN  /\ open_list' = x.heap
                                            /\ plan_status' = IF x.err THEN "raised"
                                                              ELSE "running"
                                            /\ draws' = IF x.drew THEN Append(draws, d)
                                                        ELSE draws
                                            /\ UNCHANGED plan_result

\* one iteration of the while loop of plan(), or its exit; d is the damage
\* drawn if AttackEnemy is applied in this iteration
PlanIteration(d) ==
    /\ plan_status = "running"
    /\ pops < MaxExpansions \/ open_list = <<>>
    /\ IF open_list = <<>>
       THEN /\ plan_status' = "returned"
            /\ plan_result' = <<>>
            /\ UNCHANGED <<open_list, closed_set, pops, pop_trace, draws>>
       ELSE LET p == heappop(open_list)
                node == p.item
                state_key == state_to_key(node.state)
            IN  /\ pops' = pops + 1
                /\ IF p.err
                   THEN /\ plan_status' = "raised"
                        /\ UNCHANGED <<open_list, closed_set, plan_result, pop_trace, draws>>
                   ELSE /\ pop_trace' = Append(pop_trace, state_key)
                        /\ IF state_key \in closed_set
                           THEN /\ open_list' = p.heap
                                /\ UNCHANGED <<closed_set, plan_status, plan_result, draws>>
                           ELSE /\ closed_set' = closed_set \cup {state_key}
                                /\ IF goal_satisfied(node.state, goal)
                                   THEN /\ plan_status' = "returned"
                                        /\ plan_result' = node.actions
                                        /\ open_list' = p.heap
                                        /\ UNCHANGED draws
                                   ELSE LET x == expand([heap |-> p.heap, err |-> FALSE,
                                                         drew |-> FALSE], node, goal, d, 1)
                                        IN  /\ open_list' = x.heap
                                            /\ plan_status' = IF x.err THEN "raised"
                                                              ELSE "running"
                                            /\ draws' = IF x.drew THEN Append(draws, d)
                                                        ELSE draws
                                            /\ UNCHANGED plan_result

\* the search has ended, or the model stops following it
PlanStopped == plan_status # "running" \/ (pops >= MaxExpansions /\ open_list # <<>>)

PlanOutcome == [status |-> plan_status, result |-> plan_result,
                trace |-> pop_trace, draws |-> draws]

----------------------------------------------------------------------------
(* The planner on its own: plan(start, goal_conditions) for any start state  *)
(* and goal, the re-application of a returned plan, and a repeated call      *)

PlanHealth == {20, 55, 95}
PlanStamina == {1, 5, 16}
PlanPotions == {<<0, FALSE>>, <<1, TRUE>>, <<3, TRUE>>, <<3, FALSE>>}

PlanStarts ==
    {WorldState(h, s, p[1], t, e, z, p[2], b) :
        h \in PlanHealth, s \in PlanStamina, p \in PlanPotions,
        t \in Range(ThreatLevels), e \in BOOLEAN, z \in BOOLEAN, b \in BOOLEAN}

NoState == WorldState(0, 0, 0, "low", FALSE, FALSE, FALSE, FALSE)
NoOutcome == [status |-> "idle", result |-> <<>>, trace |-> <<>>, draws |-> <<>>]
NoExec == [success |-> TRUE, message |-> "", state |-> NoState, executed |-> FALSE]

IdleRun ==
    /\ initial_state = NoState
    /\ current_state = NoState
    /\ step_count = 0
    /\ max_steps = 0
    /\ memory = <<>>
    /\ step_start = [state |-> NoState, memory |-> 0]
    /\ exec_result = NoExec
    /\ executed = <<>>
    /\ drifts = 0

IdlePure ==
    /\ pure_in = NoState
    /\ pure_out = [op |-> "none", action |-> "HealSelf", d |-> 0, state |-> NoState,
                   goal |-> "Survive"]

PlannerInit ==
    /\ pc = "plan"
    /\ start_state \in PlanStarts
    /\ goal \in GoalType \cup CallerGoals
    /\ open_list = fresh_open_list(start_state)
    /\ closed_set = {}
    /\ plan_status = "running"
    /\ plan_result = <<>>
    /\ pops = 0
    /\ pop_trace = <<>>
    /\ draws = <<>>
    /\ invocation = 1
    /\ first_call = NoOutcome
    /\ replay_state = start_state
    /\ replay_idx = 0
    /\ IdleRun
    /\ IdlePure

\* an iteration of the first call: the damage is whatever random.randint gives
FirstCallIteration ==
    /\ pc = "plan"
    /\ \E d \in DamageDraws : PlanIteration(d)
    /\ UNCHANGED <<pc, start_state, goal, harnessVars, runVars, pureVars>>

\* the first call is over; a returned plan is re-applied to the start state
FirstCallEnds ==
    /\ pc = "plan"
    /\ PlanStopped
    /\ first_call' = PlanOutcome
    /\ replay_state' = start_state
    /\ replay_idx' = 0
    /\ pc' = IF plan_status = "returned" /\ plan_result # <<>> THEN "replay" ELSE "again"
    /\ UNCHANGED <<start_state, goal, plannerVars, invocation, runVars, pureVars>>

\* apply the effects of the next action of the returned plan; AttackEnemy's
\* lambda draws its damage again
Replay ==
    /\ pc = "replay"
    /\ replay_idx < Len(first_call.result)
    /\ \E d \in Damage :
          replay_state' = apply_action(replay_state, first_call.result[replay_idx + 1], d)
    /\ replay_idx' = replay_idx + 1
    /\ UNCHANGED <<pc, start_state, goal, plannerVars, invocation, first_call,
                   runVars, pureVars>>

\* plan() is called again with the same arguments
SecondCall ==
    /\ pc \in {"replay", "again"}
    /\ pc = "replay" => replay_idx = Len(first_call.result)
    /\ PlanCall(start_state)
    /\ invocation' = 2
    /\ pc' = "plan2"
    /\ UNCHANGED <<start_state, goal, first_call, replay_state, replay_idx,
                   runVars, pureVars>>

\* an iteration of the second call: random.randint repeats the first call's draws
SecondCallIteration ==
    /\ pc = "plan2"
    /\ IF Len(draws) < Len(first_call.draws)
       THEN PlanIteration(first_call.draws[Len(draws) + 1])
       ELSE \E d \in DamageDraws : PlanIteration(d)
    /\ UNCHANGED <<pc, start_state, goal, harnessVars, runVars, pureVars>>

SecondCallEnds ==
    /\ pc = "plan2"
    /\ PlanStopped
    /\ pc' = "compared"
    /\ UNCHANGED <<start_state, goal, plannerVars, harnessVars, runVars, pureVars>>

PlannerNext ==
    \/ FirstCallIteration
    \/ FirstCallEnds
    \/ Replay
    \/ SecondCall
    \/ SecondCallIteration
    \/ SecondCallEnds

PlannerSpec == PlannerInit /\ [][PlannerNext]_vars

----------------------------------------------------------------------------
(* SimulationEngine *)

\* _generate_failure_reason
generate_failure_reason(a) ==
    CASE a = "HealSelf"        -> "Potion was spoiled/stolen during attempt"
      [] a = "AttackEnemy"     -> "Enemy dodged attack and counterattacked"
      [] a = "Retreat"         -> "Escape route was blocked"
      [] a = "DefendTreasure"  -> "Overwhelmed by multiple attackers"
      [] a = "CallBackup"      -> "Communication device malfunctioned"
      [] a = "SearchForPotion" -> "Search area was already looted"

ExecResult(ok, msg, s) == [success |-> ok, message |-> msg, state |-> s, executed |-> TRUE]

\* variant: HealSelf takes the 40 points away instead of adding them
execute_action_potion_harms(a, world_state, fail, d) ==
    IF fail THEN ExecResult(FALSE, generate_failure_reason(a), world_state)
    ELSE CASE a = "HealSelf" ->
                IF world_state.has_potion
                THEN ExecResult(TRUE, "Healed successfully",
                        [world_state EXCEPT
                            !.health = Max(0, world_state.health - 40),
                            !.has_potion = FALSE,
                            !.potion_count = Max(0, world_state.potion_count - 1)])
                ELSE ExecResult(FALSE, "No potions available for healing", world_state)
           [] a = "AttackEnemy" ->
                IF world_state.enemy_nearby /\ world_state.stamina >= 5
                THEN ExecResult(TRUE, "Enemy defeated",
                        [world_state EXCEPT
                            !.enemy_nearby = FALSE,
                            !.stamina = world_state.stamina - 5,
                            !.health = Max(0, world_state.health - d)])
                ELSE ExecResult(FALSE,
                        "Cannot attack: no enemy nearby or insufficient stamina",
                        world_state)
           [] a = "Retreat" ->
                IF ~world_state.is_in_safe_zone
                THEN ExecResult(TRUE, "Successfully retreated to safe zone",
                        [world_state EXCEPT
                            !.is_in_safe_zone = TRUE,
                            !.enemy_nearby = FALSE,
                            !.stamina = Max(0, world_state.stamina - 2)])
                ELSE ExecResult(FALSE, "Already in safe zone", world_state)
           [] a = "DefendTreasure" ->
                IF world_state.treasure_threat_level \in {"medium", "high"}
                THEN ExecResult(TRUE, "Treasure successfully defended",
                        [world_state EXCEPT
                            !.treasure_threat_level = "low",
                            !.stamina = Max(0, world_state.stamina - 3)])
                ELSE ExecResult(FALSE, "No significant threat to treasure", world_state)
           [] a = "CallBackup" ->
                IF world_state.backup_available
                THEN ExecResult(TRUE, "Backup called successfully",
                        [world_state EXCEPT
                            !.enemy_nearby = FALSE,
                            !.backup_available = FALSE,
                            !.treasure_threat_level = "low"])
                ELSE ExecResult(FALSE, "Backup not available", world_state)
           [] a = "SearchForPotion" ->
                IF world_state.potion_count < 3
                THEN ExecResult(TRUE, "Found a potion",
                        [world_state EXCEPT
                            !.has_potion = TRUE,
                            !.potion_count = world_state.potion_count + 1,
                            !.stamina = Max(0, world_state.stamina - 1)])
                ELSE ExecResult(FALSE, "Already carrying maximum potions", world_state)

\* execute_action; fail is random.random() < self.failure_chance, d the
\* result of random.randint(0, 15) in the AttackEnemy branch
execute_action(a, world_state, fail, d) ==
    IF fail THEN ExecResult(FALSE, generate_failure_reason(a), world_state)
    ELSE CASE a = "HealSelf" ->
                IF world_state.has_potion
                THEN ExecResult(TRUE, "Healed successfully",
                        [world_state EXCEPT
                            !.health = Min(100, world_state.health + 40),
                            !.has_potion = FALSE,
                            !.potion_count = Max(0, world_state.potion_count - 1)])
                ELSE ExecResult(FALSE, "No potions available for healing", world_state)
           [] a = "AttackEnemy" ->
                IF world_state.enemy_nearby /\ world_state.stamina >= 5
                THEN ExecResult(TRUE, "Enemy defeated",
                        [world_state EXCEPT
                            !.enemy_nearby = FALSE,
                            !.stamina = world_state.stamina - 5,
                            !.health = Max(0, world_state.health - d)])
                ELSE ExecResult(FALSE,
                        "Cannot attack: no enemy nearby or insufficient stamina",
                        world_state)
           [] a = "Retreat" ->
                IF ~world_state.is_in_safe_zone
                THEN ExecResult(TRUE, "Successfully retreated to safe zone",
                        [world_state EXCEPT
                            !.is_in_safe_zone = TRUE,
                            !.enemy_nearby = FALSE,
                            !.stamina = Max(0, world_state.stamina - 2)])
                ELSE ExecResult(FALSE, "Already in safe zone", world_state)
           [] a = "DefendTreasure" ->
                IF world_state.treasure_threat_level \in {"medium", "high"}
                THEN ExecResult(TRUE, "Treasure successfully defended",
                        [world_state EXCEPT
                            !.treasure_threat_level = "low",
                            !.stamina = Max(0, world_state.stamina - 3)])
                ELSE ExecResult(FALSE, "No significant threat to treasure", world_state)
           [] a = "CallBackup" ->
                IF world_state.backup_available
                THEN ExecResult(TRUE, "Backup called successfully",
                        [world_state EXCEPT
                            !.enemy_nearby = FALSE,
                            !.backup_available = FALSE,
                            !.treasure_threat_level = "low"])
                ELSE ExecResult(FALSE, "Backup not available", world_state)
           [] a = "SearchForPotion" ->
                IF world_state.potion_count < 3
                THEN ExecResult(TRUE, "Found a potion",
                        [world_state EXCEPT
                            !.has_potion = TRUE,
                            !.potion_count = world_state.potion_count + 1,
                            !.stamina = Max(0, world_state.stamina - 1)])
                ELSE ExecResult(FALSE, "Already carrying maximum potions", world_state)

\* variant: the position is counted from 1
ThreatIndex_from_one(t) == CHOOSE i \in 1..Len(ThreatLevels) : ThreatLevels[i] = t

\* threat_levels.index(level), 0-based
ThreatIndex(t) == CHOOSE i \in 0..(Len(ThreatLevels) - 1) : ThreatLevels[i + 1] = t

\* variant: the new state is built afresh and backup_available is left at its
\* default
introduce_world_changes_fresh_backup(world_state, enemy_appears, threat_rises) ==
    LET s0 == [world_state EXCEPT !.backup_available = TRUE]
        s1 == IF enemy_appears THEN [s0 EXCEPT !.enemy_nearby = TRUE]
              ELSE s0
        current_index == ThreatIndex(world_state.treasure_threat_level)
        s2 == IF threat_rises /\ current_index < Len(ThreatLevels) - 1
              THEN [s1 EXCEPT !.treasure_threat_level = ThreatLevels[current_index + 2]]
              ELSE s1
    IN  IF world_state.is_in_safe_zone /\ world_state.stamina < 20
        THEN [s2 EXCEPT !.stamina = Min(20, world_state.stamina + 2)]
        ELSE s2

\* introduce_world_changes; enemy_appears is random.random() < 0.2 and
\* threat_rises is random.random() < 0.15
introduce_world_changes(world_state, enemy_appears, threat_rises) ==
    LET s1 == IF enemy_appears THEN [world_state EXCEPT !.enemy_nearby = TRUE]
              ELSE world_state
        current_index == ThreatIndex(world_state.treasure_threat_level)
        s2 == IF threat_rises /\ current_index < Len(ThreatLevels) - 1
              THEN [s1 EXCEPT !.treasure_threat_level = ThreatLevels[current_index + 2]]
              ELSE s1
    IN  IF world_state.is_in_safe_zone /\ world_state.stamina < 20
        THEN [s2 EXCEPT !.stamina = Min(20, world_state.stamina + 2)]
        ELSE s2

----------------------------------------------------------------------------
(* DungeonGuardian *)

\* variant: the stable-state test forgets is_in_safe_zone
should_end_simulation_anywhere(s) ==
    \/ s.health <= 0
    \/ /\ s.health >= 70
       /\ ~s.enemy_nearby
       /\ s.treasure_threat_level = "low"

\* _should_end_simulation
should_end_simulation(s) ==
    \/ s.health <= 0
    \/ /\ s.health >= 70
       /\ ~s.enemy_nearby
       /\ s.treasure_threat_level = "low"
       /\ s.is_in_safe_zone

\* a call execute_action(action, self.current_state) made in loop iteration step
Call(step, action, s) == [step |-> step, action |-> action, state |-> s]

\* the record reflect_on_failure appends to self.memory (without the timestamp)
MemoryEntry(a, s, reason) == [failed_action |-> a, world_state |-> s, reason |-> reason]

\* create_test_scenarios
TestScenarios ==
    {WorldState(20, 5, 0, "medium", TRUE, FALSE, FALSE, TRUE),
     WorldState(85, 15, 1, "high", TRUE, FALSE, TRUE, TRUE),
     WorldState(70, 2, 1, "low", FALSE, TRUE, TRUE, TRUE),
     WorldState(60, 10, 0, "low", TRUE, FALSE, FALSE, TRUE)}

\* the quick demo of main_menu
DemoState == WorldState(15, 3, 0, "high", TRUE, FALSE, FALSE, TRUE)

\* create_custom_scenario, for the typed health, stamina and potion count
CustomScenario(health, stamina, potion_count, t, e, z, b) ==
    WorldState(Max(1, Min(100, health)), Max(1, Min(20, stamina)),
               Max(0, Min(5, potion_count)), t, e, z, potion_count > 0, b)

\* create_custom_scenario after a ValueError
CustomDefault == WorldState(50, 10, 1, "low", FALSE, TRUE, TRUE, TRUE)

\* the numbers typed into create_custom_scenario that the model explores
TypedHealth == {0, 25, 45, 80}
TypedStamina == {4, 18, 25}
TypedPotions == {-1, 1, 3, 7}

\* WorldStates a caller builds itself and passes to run_simulation
DirectCallStates ==
    {WorldState(0, 0, 2, "low", FALSE, TRUE, FALSE, FALSE),
     WorldState(0, 10, 1, "medium", TRUE, FALSE, TRUE, TRUE)}

InitialStates ==
    TestScenarios \cup {DemoState, CustomDefault} \cup DirectCallStates
    \cup {CustomScenario(h, s, p, t, e, z, b) :
            h \in TypedHealth, s \in TypedStamina, p \in TypedPotions,
            t \in Range(ThreatLevels), e \in BOOLEAN, z \in BOOLEAN, b \in BOOLEAN}

IdlePlanner ==
    /\ start_state = NoState
    /\ goal = "Survive"
    /\ open_list = <<>>
    /\ closed_set = {}
    /\ plan_status = "idle"
    /\ plan_result = <<>>
    /\ pops = 0
    /\ pop_trace = <<>>
    /\ draws = <<>>

IdleHarness ==
    /\ invocation = 0
    /\ first_call = NoOutcome
    /\ replay_state = NoState
    /\ replay_idx = 0

\* run_simulation(initial_state, max_steps) up to the for loop
Init ==
    /\ pc = "loop"
    /\ initial_state \in InitialStates
    /\ current_state = initial_state
    /\ max_steps \in 1..MaxStepsBound
    /\ step_count = 0
    /\ memory = <<>>
    /\ step_start = [state |-> current_state, memory |-> 0]
    /\ exec_result = NoExec
    /\ executed = <<>>
    /\ drifts = 0
    /\ IdlePlanner
    /\ IdleHarness
    /\ IdlePure

\* variant: the plan is made for the state the run began in
StepBegin_plans_from_initial ==
    /\ pc = "loop"
    /\ step_count < max_steps
    /\ step_count' = step_count + 1
    /\ goal' = generate_goal(current_state)
    /\ start_state' = initial_state
    /\ PlanCall(initial_state)
    /\ step_start' = [state |-> current_state, memory |-> Len(memory)]
    /\ exec_result' = NoExec
    /\ pc' = "planning"
    /\ UNCHANGED <<initial_state, current_state, max_steps, memory, executed, drifts,
                   harnessVars, pureVars>>

\* the head of a loop iteration up to the call of plan()
StepBegin ==
    /\ pc = "loop"
    /\ step_count < max_steps
    /\ step_count' = step_count + 1
    /\ goal' = generate_goal(current_state)
    /\ start_state' = current_state
    /\ PlanCall(current_state)
    /\ step_start' = [state |-> current_state, memory |-> Len(memory)]
    /\ exec_result' = NoExec
    /\ pc' = "planning"
    /\ UNCHANGED <<initial_state, current_state, max_steps, memory, executed, drifts,
                   harnessVars, pureVars>>

\* range(max_steps) is used up
LoopExhausted ==
    /\ pc = "loop"
    /\ step_count >= max_steps
    /\ pc' = "end_exhausted"
    /\ UNCHANGED <<start_state, goal, plannerVars, harnessVars, runVars, pureVars>>

\* plan() runs inside the step
RunPlanIteration ==
    /\ pc = "planning"
    /\ \E d \in DamageDraws : PlanIteration(d)
    /\ UNCHANGED <<pc, start_state, goal, harnessVars, runVars, pureVars>>

\* plan() returned: "if not plan: break", else its first action is executed
PlanReturns ==
    /\ pc = "planning"
    /\ plan_status = "returned"
    /\ pc' = IF plan_result = <<>> THEN "end_no_plan" ELSE "execute"
    /\ UNCHANGED <<start_state, goal, plannerVars, harnessVars, runVars, pureVars>>

\* a TypeError raised inside plan() leaves run_simulation, which has no handler
PlanRaises ==
    /\ pc = "planning"
    /\ plan_status = "raised"
    /\ pc' = "crashed"
    /\ UNCHANGED <<start_state, goal, plannerVars, harnessVars, runVars, pureVars>>

\* variant: new_state is adopted before the success test
Execute_adopts_before_test ==
    /\ pc = "execute"
    /\ \E fail \in BOOLEAN, d \in DamageDraws :
          LET action == plan_result[1]
              r == execute_action(action, current_state, fail, d)
          IN  /\ exec_result' = r
              /\ executed' = Append(executed, Call(step_count, action, current_state))
              /\ current_state' = execute_action(action, current_state, FALSE, d).state
              /\ IF r.success
                 THEN UNCHANGED memory
                 ELSE memory' = Append(memory,
                                   MemoryEntry(action, current_state, r.message))
    /\ pc' = "drift"
    /\ UNCHANGED <<start_state, goal, plannerVars, harnessVars, initial_state,
                   step_count, max_steps, step_start, drifts, pureVars>>

\* execute_action on plan[0], then the success / failure branches
Execute ==
    /\ pc = "execute"
    /\ \E fail \in BOOLEAN, d \in DamageDraws :
          LET action == plan_result[1]
              r == execute_action(action, current_state, fail, d)
          IN  /\ exec_result' = r
              /\ executed' = Append(executed, Call(step_count, action, current_state))
              /\ IF r.success
                 THEN /\ current_state' = r.state
                      /\ UNCHANGED memory
                 ELSE /\ memory' = Append(memory,
                                      MemoryEntry(action, current_state, r.message))
                      /\ UNCHANGED current_state
    /\ pc' = "drift"
    /\ UNCHANGED <<start_state, goal, plannerVars, harnessVars, initial_state,
                   step_count, max_steps, step_start, drifts, pureVars>>

\* variant: the drift is part of the success branch
Drift_after_success_only ==
    /\ pc = "drift"
    /\ IF exec_result.success
       THEN /\ \E enemy_appears \in BOOLEAN, threat_rises \in BOOLEAN :
                  current_state' = introduce_world_changes(current_state, enemy_appears,
                                                           threat_rises)
            /\ drifts' = drifts + 1
       ELSE UNCHANGED <<current_state, drifts>>
    /\ pc' = "check"
    /\ UNCHANGED <<start_state, goal, plannerVars, harnessVars, initial_state,
                   step_count, max_steps, memory, step_start, exec_result, executed,
                   pureVars>>

\* self.current_state = self.simulator.introduce_world_changes(self.current_state)
Drift ==
    /\ pc = "drift"
    /\ \E enemy_appears \in BOOLEAN, threat_rises \in BOOLEAN :
          current_state' = introduce_world_changes(current_state, enemy_appears,
                                                   threat_rises)
    /\ drifts' = drifts + 1
    /\ pc' = "check"
    /\ UNCHANGED <<start_state, goal, plannerVars, harnessVars, initial_state,
                   step_count, max_steps, memory, step_start, exec_result, executed,
                   pureVars>>

\* variant: without a break the rest of the plan is carried on with
Check_carries_on ==
    /\ pc = "check"
    /\ pc' = IF should_end_simulation(current_state) THEN "end_terminal" ELSE "execute"
    /\ UNCHANGED <<start_state, goal, plannerVars, harnessVars, runVars, pureVars>>

\* if self._should_end_simulation(): break
Check ==
    /\ pc = "check"
    /\ pc' = IF should_end_simulation(current_state) THEN "end_terminal" ELSE "loop"
    /\ UNCHANGED <<start_state, goal, plannerVars, harnessVars, runVars, pureVars>>

Next ==
    \/ StepBegin
    \/ LoopExhausted
    \/ RunPlanIteration
    \/ PlanReturns
    \/ PlanRaises
    \/ Execute
    \/ Drift
    \/ Check

Spec == Init /\ [][Next]_vars

----------------------------------------------------------------------------
(* The pure functions on their own: one call of _apply_action or of         *)
(* generate_goal on any WorldState in range                                  *)

PureHealth == {0, 5, 15, 30, 31, 49, 50, 60, 61, 90, 100}
PureStamina == {0, 1, 2, 3, 4, 5, 6, 15, 16, 20}

PureStates ==
    {WorldState(h, s, p, t, e, z, hp, b) :
        h \in PureHealth, s \in PureStamina, p \in 0..3,
        t \in Range(ThreatLevels), e \in BOOLEAN, z \in BOOLEAN, hp \in BOOLEAN,
        b \in BOOLEAN}

PureResult(op, a, d, s, gl) == [op |-> op, action |-> a, d |-> d, state |-> s, goal |-> gl]

PureInit ==
    /\ pc = "pure"
    /\ pure_in \in PureStates
    /\ pure_out = PureResult("none", "HealSelf", 0, pure_in, "Survive")
    /\ IdlePlanner
    /\ IdleHarness
    /\ IdleRun

\* _apply_action(state, action) for an action whose preconditions hold
PureApply ==
    /\ pc = "pure"
    /\ pure_out.op = "none"
    /\ \E a \in ActionType, d \in DamageDraws :
          /\ can_execute_action(pure_in, a)
          /\ pure_out' = PureResult("apply", a, d, apply_action(pure_in, a, d), "Survive")
    /\ UNCHANGED <<pc, start_state, goal, plannerVars, harnessVars, runVars, pure_in>>

\* generate_goal(world_state); the state is only read
PureGoal ==
    /\ pc = "pure"
    /\ pure_out.op = "none"
    /\ pure_out' = PureResult("goal", "HealSelf", 0, pure_in, generate_goal(pure_in))
    /\ UNCHANGED <<pc, start_state, goal, plannerVars, harnessVars, runVars, pure_in>>

PureNext ==
    \/ PureApply
    \/ PureGoal

PureSpec == PureInit /\ [][PureNext]_vars

----------------------------------------------------------------------------
(* Properties *)

\* the re-application of the plan returned by the first call has finished
ReplayFinished == pc = "replay" /\ replay_idx = Len(first_call.result)

\* C1: whenever plan() returns a plan, applying the effects of its actions in
\* order to the start state (AttackEnemy drawing its damage again) ends in a
\* state that satisfies the goal conditions.
C1_ReappliedPlanSatisfiesGoal ==
    ReplayFinished => goal_satisfied(replay_state, goal)

\* no catalog effect sets backup_available to true or raises stamina, so these
\* goals cannot be reached from these start states
GoalUnreachable(s, gl) ==
    \/ gl = "NeedBackup" /\ ~s.backup_available
    \/ gl = "PrepareForBattle" /\ s.stamina < 15

\* the first call of plan() is over (searches the model stopped following are
\* left out)
FirstCallOver == pc \in {"replay", "again", "plan2", "compared"} /\ first_call.status # "running"

\* C2: if the goal cannot be reached from the start state (backup_available
\* = true wanted while it is false, PrepareForBattle with stamina < 15), plan()
\* ends by returning the empty list.
C2_UnreachableGoalReturnsEmpty ==
    (FirstCallOver /\ GoalUnreachable(start_state, goal))
        => (first_call.status = "returned" /\ first_call.result = <<>>)

\* C3: run_simulation leaves through "No valid plan found" only in a state
\* that does not already satisfy the selected goal.
C3_NoPlanEndMeansGoalNotSatisfied ==
    pc = "end_no_plan" => ~goal_satisfied(current_state, goal)

C5_EffectsAndFrame ==
    pure_out.op = "apply" =>
        \A key \in Fields :
            pure_out.state[key] =
                IF key \in Range(EffectKeys(pure_out.action))
                THEN EffectValue(pure_out.action, key, pure_in[key], pure_out.d)
                ELSE pure_in[key]

\* AttackEnemy applied with a non-zero damage to a state with other fields set
C5_Witness ==
    /\ pure_out.op = "apply"
    /\ pure_out.action = "AttackEnemy"
    /\ pure_out.d > 0
    /\ pure_out.state.health = pure_in.health - pure_out.d
    /\ pure_in.has_potion
    /\ pure_out.state.has_potion

\* C6: from a state with health in 0..100 and stamina in 0..20, the effects
\* of one applicable catalog action leave health in 0..100 and stamina >= 0.
C6_EffectsStayInRange ==
    pure_out.op = "apply" =>
        /\ pure_out.state.health \in 0..100
        /\ pure_out.state.stamina >= 0

\* C7: generate_goal returns one of the four goals by the priority chain,
\* first match winning, and leaves the state as it was.
C7_GoalPriorityChain ==
    pure_out.op = "goal" =>
        LET s == pure_in
            g == pure_out.goal
            high_enemy == s.treasure_threat_level = "high" /\ s.enemy_nearby
        IN  /\ g \in GoalType
            /\ g = "Survive" <=> s.health <= 30
            /\ g = "EliminateThreat" <=> (s.health > 30 /\ high_enemy)
            /\ g = "ProtectTreasure" <=>
                   (/\ s.health > 30
                    /\ s.treasure_threat_level \in {"medium", "high"}
                    /\ ~high_enemy)
            /\ g = "PrepareForBattle" <=>
                   (s.health > 30 /\ s.treasure_threat_level = "low")
            /\ pure_out.state = pure_in

\* the second branch of the chain taken
C7_Witness ==
    /\ pure_out.op = "goal"
    /\ pure_out.goal = "EliminateThreat"
    /\ pure_in.health > 30

\* C8: when the state is handed to the drift, a failed execution has left it
\* equal to the state at the start of the step and has appended exactly one
\* record to the reflection log; a successful one has had its state adopted
\* and has appended nothing.
C8_FailureLeavesStateUnchanged ==
    pc = "drift" =>
        /\ exec_result.executed
        /\ IF exec_result.success
           THEN /\ current_state = exec_result.state
                /\ Len(memory) = step_start.memory
           ELSE /\ current_state = step_start.state
                /\ Len(memory) = step_start.memory + 1
                /\ memory[Len(memory)].failed_action = plan_result[1]
                /\ memory[Len(memory)].world_state = step_start.state

\* a failed execution of an action that would have changed the state
C8_Witness ==
    /\ pc = "drift"
    /\ ~exec_result.success
    /\ execute_action(plan_result[1], step_start.state, FALSE, 0).state # step_start.state

\* the termination test of a step, as the run loop's contract states it
Terminal(s) ==
    \/ s.health <= 0
    \/ (s.health >= 70 /\ ~s.enemy_nearby /\ s.treasure_threat_level = "low"
        /\ s.is_in_safe_zone)

\* C9: after the drift the run ends exactly when health <= 0 or the state is
\* stable (health >= 70, no enemy, threat low, safe zone); an ended run takes
\* no further step; otherwise, with steps left, the next step is started.
C9_TerminationConditions ==
    [][/\ pc = "check" =>
            pc' = (IF Terminal(current_state) THEN "end_terminal" ELSE "loop")
       /\ pc # "end_terminal"
       /\ (pc = "loop" /\ step_count < max_steps) =>
            (pc' = "planning" /\ step_count' = step_count + 1)]_vars

\* a run ended by the stable-state test while steps were left
C9_Witness ==
    /\ pc = "end_terminal"
    /\ current_state.health >= 70
    /\ step_count < max_steps

\* C10: every call of plan() inside the loop returns and the run never goes
\* beyond max_steps steps.
C10_EveryPlannerCallReturns ==
    /\ plan_status # "raised"
    /\ pc # "crashed"
    /\ step_count <= max_steps

\* C11: every step executes at most one action, and that action is the first
\* one of the plan computed in the same step from the state the step started
\* in; nothing of an earlier step's plan is executed.
C11_OnlyHeadOfFreshPlanExecuted ==
    /\ Len(executed) <= step_count
    /\ \A i \in 1..Len(executed) : \A j \in 1..Len(executed) :
           i < j => executed[i].step < executed[j].step
    /\ pc \in {"drift", "check"} =>
           /\ executed # <<>>
           /\ plan_status = "returned"
           /\ start_state = step_start.state
           /\ pop_trace[1] = state_to_key(step_start.state)
           /\ executed[Len(executed)] =
                  Call(step_count, plan_result[1], step_start.state)

\* a later step of a run has executed the head of a new plan of several actions
C11_Witness ==
    /\ pc = "drift"
    /\ Len(executed) >= 2
    /\ Len(plan_result) >= 2

\* C12: backup_available never goes from false back to true: not in the
\* state of the run across an execution (successful or failed) or a drift, and
\* not in any node the planner derives from a start state where it is false.
C12_BackupNeverReturns ==
    [][/\ ~current_state.backup_available => ~current_state'.backup_available
       /\ (exec_result'.executed /\ ~current_state.backup_available)
              => ~exec_result'.state.backup_available
       /\ ~start_state'.backup_available =>
              \A i \in 1..Len(open_list') : ~open_list'[i].state.backup_available]_vars

\* a run that spent its backup in an earlier step has gone through another
\* execution and drift since
C12_Witness ==
    /\ pc = "check"
    /\ initial_state.backup_available
    /\ ~step_start.state.backup_available
    /\ ~current_state.backup_available

\* the start state of the claim: wounded, no potion, enemy near, in the open
WoundedInTheOpen == WorldState(20, 5, 0, "medium", TRUE, FALSE, FALSE, TRUE)

\* C13: for the start state {health 20, stamina 5, no potion, threat medium,
\* enemy nearby, not in the safe zone, backup available} and the goal Survive,
\* plan() returns a plan whose first action is Retreat.
C13_WoundedPlanStartsWithRetreat ==
    (FirstCallOver /\ start_state = WoundedInTheOpen /\ goal = "Survive")
        => /\ first_call.status = "returned"
           /\ first_call.result # <<>>
           /\ first_call.result[1] = "Retreat"

\* C14: from every start state with potion_count = 0, has_potion = false and
\* stamina >= 16, plan() for PrepareForBattle returns exactly [SearchForPotion].
C14_PrepareForBattleIsOneSearch ==
    (/\ FirstCallOver
     /\ goal = "PrepareForBattle"
     /\ start_state.potion_count = 0
     /\ ~start_state.has_potion
     /\ start_state.stamina >= 16)
        => /\ first_call.status = "returned"
           /\ first_call.result = <<"SearchForPotion">>

\* health and stamina of a WorldState are inside their ranges
InRange(s) == s.health \in 0..100 /\ s.stamina \in 0..20

\* C15: in a run whose initial state has health in 0..100 and stamina in
\* 0..20, the state after every execution and after every drift has health in
\* 0..100 and stamina in 0..20.
C15_RunStaysInRange ==
    InRange(initial_state) =>
        /\ InRange(current_state)
        /\ exec_result.executed => InRange(exec_result.state)

\* a run has come through an execution that stopped at the floor of stamina
\* and a drift
C15_Witness ==
    /\ pc = "check"
    /\ exec_result.success
    /\ step_start.state.stamina = 0
    /\ exec_result.state.stamina = 0
    /\ plan_result[1] = "SearchForPotion"
    /\ InRange(initial_state)

\* the WorldStates create_test_scenarios, the quick demo and
\* create_custom_scenario can hand to run_simulation
ConstructedStates == InitialStates \ DirectCallStates

\* C16: potion_count stays in 0..3: every initial state the scenario
\* constructors produce has it in 0..3, and from a state with it in 0..3 every
\* planner node, execution result and drift result has it in 0..3.
C16_PotionCountInRange ==
    /\ initial_state \in ConstructedStates => initial_state.potion_count \in 0..3
    /\ initial_state.potion_count \in 0..3 =>
           /\ current_state.potion_count \in 0..3
           /\ exec_result.executed => exec_result.state.potion_count \in 0..3
           /\ \A i \in 1..Len(open_list) : open_list[i].state.potion_count \in 0..3

\* (f, g) of frontier entry a is not above (f, g) of entry b
KeyNotAbove(a, b) == a.f < b.f \/ (a.f = b.f /\ a.g <= b.g)

\* C17: every pop takes an entry of least f and, among those, of least g; the
\* popped f never decreases from one pop to the next; and entries that tie in
\* f and g never make the search fail.
C17_PopOrderAndTies ==
    [][pops' = pops + 1 =>
          /\ plan_status' # "raised"
          /\ \A i \in 1..Len(open_list) : KeyNotAbove(open_list[1], open_list[i])
          /\ \A i \in 1..Len(open_list') : open_list'[i].f >= open_list[1].f]_vars

\* C18: within one call of plan() no state (all eight fields) is expanded
\* twice: a popped node whose key is in the closed set is dropped with no goal
\* test and no expansion, whatever its g; any other popped node has its key
\* added to the closed set; equal keys mean equal states.
C18_NoStateExpandedTwice ==
    [][(pops' = pops + 1 /\ pop_trace' # pop_trace) =>
          LET node == open_list[1]
              key == pop_trace'[Len(pop_trace')]
          IN  /\ \A i \in 1..Len(open_list) :
                     state_to_key(open_list[i].state) = key
                         <=> open_list[i].state = node.state
              /\ IF key \in closed_set
                 THEN /\ closed_set' = closed_set
                      /\ Len(open_list') = Len(open_list) - 1
                      /\ plan_status' = "running"
                      /\ plan_result' = plan_result
                      /\ draws' = draws
                 ELSE closed_set' = closed_set \cup {key}]_vars

\* a search has popped a node whose state it had expanded before
C18_Witness ==
    /\ pc = "plan"
    /\ plan_status = "running"
    /\ pop_trace # <<>>
    /\ \E i \in 1..(Len(pop_trace) - 1) : pop_trace[i] = pop_trace[Len(pop_trace)]

\* the preconditions of the action catalog, as its table states them
Applicable(s, a) ==
    CASE a = "HealSelf"        -> s.has_potion
      [] a = "AttackEnemy"     -> s.enemy_nearby /\ s.stamina >= 5
      [] a = "Retreat"         -> ~s.is_in_safe_zone
      [] a = "DefendTreasure"  -> s.treasure_threat_level \in {"medium", "high"}
      [] a = "CallBackup"      -> s.backup_available
      [] a = "SearchForPotion" -> s.potion_count < 3

\* the actions from position i on can be carried out one after the other from
\* s; no precondition reads health, so the damage AttackEnemy draws is left 0
RECURSIVE ExecutableFrom(_, _, _)
ExecutableFrom(s, actions, i) ==
    IF i > Len(actions) THEN TRUE
    ELSE /\ Applicable(s, actions[i])
         /\ ExecutableFrom(apply_action(s, actions[i], 0), actions, i + 1)

\* C19: every path the search holds (in a frontier entry or as the returned
\* plan) can be carried out step by step from the start state: the
\* preconditions of each action hold in the state the actions before it lead
\* to, also when a returned plan is re-applied with fresh damage draws.
C19_PlansAreExecutable ==
    /\ plan_status \in {"running", "returned", "raised"} =>
           /\ \A i \in 1..Len(open_list) :
                  ExecutableFrom(start_state, open_list[i].actions, 1)
           /\ ExecutableFrom(start_state, plan_result, 1)
    /\ (pc = "replay" /\ replay_idx < Len(first_call.result)) =>
           Applicable(replay_state, first_call.result[replay_idx + 1])

\* a returned plan of three or more actions has been re-applied
C19_Witness ==
    /\ ReplayFinished
    /\ Len(first_call.result) >= 3

\* sum of the costs of the actions from position i on
RECURSIVE PathCost(_, _)
PathCost(actions, i) ==
    IF i > Len(actions) THEN 0 ELSE Cost(actions[i]) + PathCost(actions, i + 1)

\* number of goal conditions the state does not meet
Unmet(s, gl) ==
    Cardinality({key \in Range(GoalKeys(gl)) : ~GoalHolds(gl, key, s[key])})

\* g is the cost of the entry's path and f is g plus the unmet conditions
CostAndEstimate(e, gl) ==
    /\ e.g = PathCost(e.actions, 1)
    /\ e.f = e.g + Unmet(e.state, gl)

\* C20: every frontier entry, the initial entry for the start state
\* included, has g equal to the sum of the costs of its actions and f equal
\* to g plus the number of goal conditions its state does not meet.
C20_EveryEntryCostAndEstimate ==
    \A i \in 1..Len(open_list) : CostAndEstimate(open_list[i], goal)

\* what holds instead: the entries pushed by expansions carry cost and
\* estimate; the initial entry is (0, 0, start, []) whatever its estimate is
PushedEntriesCostAndEstimate ==
    \A i \in 1..Len(open_list) :
        IF open_list[i].actions = <<>>
        THEN open_list[i] = Entry(0, 0, start_state, <<>>)
        ELSE CostAndEstimate(open_list[i], goal)

\* rank of a threat level: low 1, medium 2, high 3
ThreatRank(t) == CASE t = "low" -> 1 [] t = "medium" -> 2 [] t = "high" -> 3

\* C21: the drift changes only enemy_nearby, treasure_threat_level and
\* stamina: enemy_nearby only from false to true; the threat level stays or
\* rises by exactly one level, never above high; stamina rises by
\* min(2, 20 - stamina) in the safe zone below 20 and is otherwise unchanged;
\* the other five fields are unchanged.
C21_DriftFrame ==
    [][(pc = "drift" /\ pc' = "check") =>
          LET s == current_state
              n == current_state'
          IN  /\ s.enemy_nearby => n.enemy_nearby
              /\ ThreatRank(n.treasure_threat_level)
                     \in {ThreatRank(s.treasure_threat_level),
                          Min(3, ThreatRank(s.treasure_threat_level) + 1)}
              /\ n.stamina = IF s.is_in_safe_zone /\ s.stamina < 20
                             THEN s.stamina + Min(2, 20 - s.stamina)
                             ELSE s.stamina
              /\ n.health = s.health
              /\ n.potion_count = s.potion_count
              /\ n.has_potion = s.has_potion
              /\ n.is_in_safe_zone = s.is_in_safe_zone
              /\ n.backup_available = s.backup_available]_vars

\* a drift after a successful execution in which the enemy appeared, the
\* threat rose and the stamina regeneration stopped at 20
C21_Witness ==
    /\ pc = "check"
    /\ exec_result.success
    /\ exec_result.state.stamina = 19
    /\ current_state.stamina = 20
    /\ ~exec_result.state.enemy_nearby
    /\ current_state.enemy_nearby
    /\ current_state.treasure_threat_level # exec_result.state.treasure_threat_level

\* C22: a step that obtains a non-empty plan makes exactly one execute_action
\* call, then exactly one introduce_world_changes call, then the termination
\* test, also when the execution failed; a step whose plan is empty makes
\* neither call and ends the run.
C22_StepOrdering ==
    LET done == [e |-> Len(executed), d |-> drifts]
        before == [e |-> step_count - 1, d |-> step_count - 1]
        between == [e |-> step_count, d |-> step_count - 1]
        after == [e |-> step_count, d |-> step_count]
    IN  /\ pc \in {"planning", "crashed"} => done = before
        /\ pc = "execute" => done = before /\ plan_result # <<>>
        /\ pc = "end_no_plan" => done = before /\ plan_result = <<>>
        /\ pc = "drift" => done = between /\ exec_result.executed
        /\ pc \in {"check", "loop", "end_terminal", "end_exhausted"} => done = after

\* the termination test of a later step is reached after a failed execution
\* and the drift that followed it
C22_Witness ==
    /\ pc = "check"
    /\ step_count >= 2
    /\ ~exec_result.success
    /\ Len(executed) = step_count
    /\ drifts = step_count

\* the potion flag is set only while a potion is carried
FlagHasPotion(s) == s.has_potion => s.potion_count >= 1

\* C23: has_potion = true implies potion_count >= 1 in every initial state
\* the scenario constructors produce, and from an initial state where it
\* holds in every planner node, execution result and state of the run.
C23_FlagImpliesPotion ==
    /\ initial_state \in ConstructedStates => FlagHasPotion(initial_state)
    /\ FlagHasPotion(initial_state) =>
           /\ FlagHasPotion(current_state)
           /\ exec_result.executed => FlagHasPotion(exec_result.state)
           /\ \A i \in 1..Len(open_list) : FlagHasPotion(open_list[i].state)

\* the last potion has been drunk in a run
C23_Witness ==
    /\ pc = "drift"
    /\ exec_result.success
    /\ plan_result[1] = "HealSelf"
    /\ step_start.state.potion_count = 1
    /\ current_state.potion_count = 0
    /\ ~current_state.has_potion

\* C24: for every state with health in 0..100 and stamina in 0..20 and every
\* action whose preconditions hold, the successor _apply_action computes
\* equals the state a successful execute_action returns for the same
\* AttackEnemy damage draw.
C24_PlannerAgreesWithEnvironment ==
    pure_out.op = "apply" =>
        LET r == execute_action(pure_out.action, pure_in, FALSE, pure_out.d)
        IN  r.success /\ pure_out.state = r.state

\* the messages of execute_action's 'precondition not met' branches
PreconditionMessages ==
    {"No potions available for healing",
     "Cannot attack: no enemy nearby or insufficient stamina",
     "Already in safe zone",
     "No significant threat to treasure",
     "Backup not available",
     "Already carrying maximum potions"}

\* C25: the action a step executes passes execute_action's own precondition
\* test in the state it is executed in; a failure it reports comes from the
\* random-failure branch, never from a 'precondition not met' branch.
C25_ExecutedActionIsApplicable ==
    exec_result.executed =>
        /\ Applicable(step_start.state, executed[Len(executed)].action)
        /\ exec_result.message \notin PreconditionMessages

\* a later step of a run has executed its action and the random failure struck
C25_Witness ==
    /\ pc = "drift"
    /\ step_count >= 2
    /\ ~exec_result.success
    /\ exec_result.message = generate_failure_reason(plan_result[1])
    /\ step_start.state # initial_state

\* some sequence of applicable actions of total cost at most budget leads
\* from s to a state satisfying the goal, AttackEnemy always drawing damage d
RECURSIVE ReachableWithin(_, _, _, _)
ReachableWithin(s, budget, gl, d) ==
    \/ \A key \in Range(GoalKeys(gl)) : GoalHolds(gl, key, s[key])
    \/ \E a \in ActionType :
          /\ Cost(a) <= budget
          /\ Applicable(s, a)
          /\ ReachableWithin(apply_action(s, a, d), budget - Cost(a), gl, d)

\* the first call has just returned a plan whose search drew no damage other
\* than d
ReturnedWithDamage(d) ==
    /\ pc = "replay"
    /\ replay_idx = 0
    /\ \A i \in 1..Len(first_call.draws) : first_call.draws[i] = d

\* C26: for the four built-in goals and AttackEnemy's damage held fixed, a
\* non-empty plan returned by plan() has the least total cost among all
\* sequences of applicable actions that lead from the start state to a state
\* satisfying the goal.
C26_ReturnedPlanIsCheapest ==
    \A d \in DamageDraws :
        (ReturnedWithDamage(d) /\ goal \in GoalType) =>
            ~ReachableWithin(start_state, PathCost(first_call.result, 1) - 1, goal, d)

\* a plan of cost 2 or more returned by a search that drew a fixed non-zero
\* damage for AttackEnemy
C26_Witness ==
    /\ goal \in GoalType
    /\ \E d \in DamageDraws \ {0} : ReturnedWithDamage(d)
    /\ first_call.draws # <<>>
    /\ PathCost(first_call.result, 1) >= 2

\* C27: from every state with health in 0..30, potion_count in 0..3 and
\* has_potion only with potion_count >= 1, plan() for Survive ends by
\* returning a non-empty plan.
C27_SurviveAlwaysPlannable ==
    (/\ FirstCallOver
     /\ goal = "Survive"
     /\ start_state.health \in 0..30
     /\ start_state.potion_count \in 0..3
     /\ FlagHasPotion(start_state))
        => /\ first_call.status = "returned"
           /\ first_call.result # <<>>

\* C28: in a run that starts with health >= 1 health stays >= 1 in every
\* state, AttackEnemy is executed only with health > 30, and the run never
\* ends through the health <= 0 branch of the termination test.
C28_NeverDefeated ==
    initial_state.health >= 1 =>
        /\ current_state.health >= 1
        /\ exec_result.executed => exec_result.state.health >= 1
        /\ \A i \in 1..Len(executed) :
               executed[i].action = "AttackEnemy" => executed[i].state.health > 30
        /\ pc = "end_terminal" => current_state.health >= 70

\* a run that began wounded has healed, and a later step has executed an
\* action with health above 30 and an enemy near
C28_Witness ==
    /\ pc = "check"
    /\ step_count >= 2
    /\ initial_state.health \in 1..30
    /\ step_start.state.health > 30
    /\ step_start.state.enemy_nearby
    /\ exec_result.executed
    /\ current_state.health >= 1

====
